---- MODULE Spec2Model ----
(***************************************************************************)
(* Model of torch_geometric/data/lightning/datamodule.py: the three        *)
(* Lightning data modules (LightningDataset, LightningNodeData,            *)
(* LightningLinkData), their construction, prepare_data and the per-split  *)
(* dataloader accessors.                                                   *)
(*                                                                         *)
(* A Python dict is a TLA+ function whose DOMAIN is the set of keys that   *)
(* are present.  Python's None is the string "None".  An operation that    *)
(* raises is recorded by the name of the exception class.                  *)
(***************************************************************************)
EXTENDS Integers, Sequences, FiniteSets, TLC

VARIABLES
    no_pytorch_lightning, \* module-level flag set by the guarded import
    phase,                \* "new" | "ready" | "failed"
    cls,                  \* class of the module under construction
    args,                 \* the constructor's arguments as the caller gave them
    self,                 \* the fields of the constructed module
    warned,               \* the warnings emitted by the constructor
    raised,               \* the exception the constructor raised, or "None"
    last                  \* the last lifecycle call and what it produced

vars == <<no_pytorch_lightning, phase, cls, args, self, warned, raised, last>>

----------------------------------------------------------------------------
(* Bounds of the model *)

MaxWorkers == 1        \* num_workers ranges over 0..MaxWorkers
MaxBatch == 2          \* batch_size ranges over 1..MaxBatch
MaxDevices == 2        \* device / process / gpu counts of the trainer
MaxTypes == 2          \* node types of a HeteroData holding one attribute

----------------------------------------------------------------------------
(* Dictionaries *)

None == "None"

EmptyDict == [k \in {} |-> TRUE]

DictGet(d, k, default) == IF k \in DOMAIN d THEN d[k] ELSE default

DictPop(d, ks) == [k \in DOMAIN d \ ks |-> d[k]]

DictSet(d, k, v) == (k :> v) @@ d

\* the dictionaries holding key k with one of the values vs, or not holding it
Opt(k, vs) == {EmptyDict} \cup {k :> v : v \in vs}

----------------------------------------------------------------------------
(* Inputs *)
(* The constructors are called with one group of arguments varied at a     *)
(* time: the loader configuration (batch_size, num_workers, pin_memory,    *)
(* persistent_workers, shuffle) with every loader mode and sampler, the    *)
(* sample selection (sampler, batch_sampler, num_neighbors, shuffle) with  *)
(* every loader mode and sampler, and the split inputs (datasets, nodes,   *)
(* edges, data attributes) with every loader mode.                         *)

\* **kwargs that configure the loader
ConfigKwargs ==
    {a @@ b @@ c : a \in Opt("shuffle", BOOLEAN),
                   b \in Opt("pin_memory", BOOLEAN),
                   c \in Opt("persistent_workers", BOOLEAN)}

\* **kwargs that select the samples
SamplerKwargs ==
    {a @@ b @@ c @@ d : a \in Opt("shuffle", BOOLEAN),
                        b \in Opt("sampler", {None, "sampler_obj"}),
                        c \in Opt("batch_sampler", {"batch_sampler_obj"}),
                        d \in Opt("num_neighbors", {"sizes"})}

\* (batch_size, num_workers, **kwargs) of a constructor call
LoaderArgs ==
    {[batch_size |-> bs, num_workers |-> nw, kwargs |-> kw] :
        bs \in 1..MaxBatch, nw \in 0..MaxWorkers, kw \in ConfigKwargs}
    \cup
    {[batch_size |-> 1, num_workers |-> 0, kwargs |-> kw] : kw \in SamplerKwargs}

DefaultLoaderArgs == [batch_size |-> 1, num_workers |-> 0, kwargs |-> EmptyDict]

\* attribute names a data object of the model may hold
AttrNames == {"train_mask", "val_idx", "valid_mask", "test_index"}

\* a graph object: its class and, per attribute, the number of node types
\* (HeteroData) or of stores (Data: at most one) that hold the attribute
DataObjects ==
    {[kind |-> "Data", attrs |-> f] : f \in [AttrNames -> 0..1]}
    \cup {[kind |-> "HeteroData", attrs |-> f] : f \in [AttrNames -> 0..MaxTypes]}
    \cup {[kind |-> "Stores", attrs |-> [n \in AttrNames |-> 0]]}

DefaultData == [kind |-> "Data", attrs |-> [n \in AttrNames |->
                                             IF n = "val_idx" THEN 1 ELSE 0]]

OptInput == {None, "given"}

DatasetArgs ==
    {la @@ [train_dataset |-> tr, val_dataset |-> "dataset", test_dataset |-> None] :
        la \in LoaderArgs, tr \in {"map_style", "iterable_style"}}
    \cup
    {DefaultLoaderArgs @@ [train_dataset |-> tr, val_dataset |-> v, test_dataset |-> t] :
        tr \in {"map_style", "iterable_style"},
        v \in {None, "dataset"}, t \in {None, "dataset"}}

NodeDataArgs ==
    {la @@ [data |-> DefaultData, input_train_nodes |-> "given",
            input_val_nodes |-> None, input_test_nodes |-> None,
            input_pred_nodes |-> None, loader |-> l, node_sampler |-> s] :
        la \in LoaderArgs, l \in {"full", "neighbor"},
        s \in {None, "CustomSampler"}}
    \cup
    {DefaultLoaderArgs @@
        [data |-> d, input_train_nodes |-> None,
         input_val_nodes |-> v, input_test_nodes |-> t,
         input_pred_nodes |-> None, loader |-> l, node_sampler |-> None] :
        d \in DataObjects, v \in OptInput, t \in OptInput,
        l \in {"full", "neighbor"}}

LinkDataArgs ==
    {la @@ [data |-> DefaultData, input_train_edges |-> "given",
            input_val_edges |-> "given", input_test_edges |-> None,
            loader |-> l, link_sampler |-> s] :
        la \in LoaderArgs, l \in {"full", "neighbor", "link_neighbor"},
        s \in {None, "CustomSampler"}}
    \cup
    {DefaultLoaderArgs @@
        [data |-> DefaultData, input_train_edges |-> tr,
         input_val_edges |-> v, input_test_edges |-> t,
         loader |-> l, link_sampler |-> None] :
        tr \in OptInput, v \in OptInput, t \in OptInput,
        l \in {"full", "neighbor", "link_neighbor"}}

\* the strategy classes of the host framework, each with its base classes
Strategies == {"SingleDeviceStrategy", "SingleTPUStrategy",
               "DDPSpawnStrategy", "DDPStrategy"}

Bases(c) == IF c = "SingleTPUStrategy"
            THEN {"SingleTPUStrategy", "SingleDeviceStrategy"}
            ELSE {c}

\* the strategies that run on one device
SingleDevice(s) == "SingleDeviceStrategy" \in Bases(s)

\* a trainer of the host framework; a legacy trainer (< 1.6) has no
\* strategies module and no num_devices attribute.  A single-device
\* strategy comes with one device only.
Trainers ==
    {t \in [legacy : {FALSE}, strategy : Strategies,
            num_devices : 1..MaxDevices] :
        SingleDevice(t.strategy) => t.num_devices = 1}
    \cup
    {t \in [legacy : {TRUE}, training_type_plugin : Strategies,
            num_processes : 1..MaxDevices, num_gpus : 0..MaxDevices] :
        SingleDevice(t.training_type_plugin)
            => t.num_processes = 1 /\ t.num_gpus <= 1}

----------------------------------------------------------------------------
(* LightningDataModule: the common base class *)

Method == "method"

\* DropShuffle without the del: the option stays in the keyword arguments
KeepShuffle(kwargs) == kwargs

\* the 'shuffle' option is removed from the keyword arguments
DropShuffle(kwargs) ==
    IF "shuffle" \in DOMAIN kwargs THEN DictPop(kwargs, {"shuffle"}) ELSE kwargs

\* 'pin_memory' defaults to True
DefaultPinMemory(kwargs) ==
    IF "pin_memory" \notin DOMAIN kwargs
    THEN DictSet(kwargs, "pin_memory", TRUE) ELSE kwargs

\* DefaultPersistentWorkers with >= for >
DefaultPersistentWorkersAlways(kwargs) ==
    IF "persistent_workers" \notin DOMAIN kwargs
    THEN DictSet(kwargs, "persistent_workers",
                 DictGet(kwargs, "num_workers", 0) >= 0)
    ELSE kwargs

\* 'persistent_workers' defaults to num_workers > 0
DefaultPersistentWorkers(kwargs) ==
    IF "persistent_workers" \notin DOMAIN kwargs
    THEN DictSet(kwargs, "persistent_workers",
                 DictGet(kwargs, "num_workers", 0) > 0)
    ELSE kwargs

\* DisabledAccessors with has_val and has_test exchanged
DisabledAccessorsSwapped(has_val, has_test) ==
    [train_dataloader |-> Method,
     val_dataloader |-> IF ~has_test THEN None ELSE Method,
     test_dataloader |-> IF ~has_val THEN None ELSE Method]

\* which of val_dataloader / test_dataloader are set to None
DisabledAccessors(has_val, has_test) ==
    [train_dataloader |-> Method,
     val_dataloader |-> IF ~has_val THEN None ELSE Method,
     test_dataloader |-> IF ~has_test THEN None ELSE Method]

\* LightningDataModule.__init__(self, has_val, has_test, **kwargs)
BaseInit(has_val, has_test, kwargs, no_pl) ==
    IF no_pl
    THEN [raised |-> "ModuleNotFoundError", warned |-> {}, fields |-> EmptyDict]
    ELSE [raised |-> None,
          warned |-> IF "shuffle" \in DOMAIN kwargs THEN {"shuffle"} ELSE {},
          fields |-> DisabledAccessors(has_val, has_test)
                     @@ [kwargs |-> DefaultPersistentWorkers(
                                       DefaultPinMemory(DropShuffle(kwargs)))]]

\* isinstance(strategy, classes)
IsInstance(strategy, classes) == Bases(strategy) \cap classes # {}

\* the strategy object prepare_data looks at
StrategyOf(trainer) ==
    IF trainer.legacy THEN trainer.training_type_plugin ELSE trainer.strategy

\* BasePrepareData comparing the exact class instead of isinstance
BasePrepareDataExactType(trainer) ==
    IF StrategyOf(trainer) \notin {"SingleDeviceStrategy", "DDPSpawnStrategy"}
    THEN "NotImplementedError"
    ELSE None

\* LightningDataModule.prepare_data(self): the exception raised, or None
BasePrepareData(trainer) ==
    IF ~IsInstance(StrategyOf(trainer),
                   {"SingleDeviceStrategy", "DDPSpawnStrategy"})
    THEN "NotImplementedError"
    ELSE None

\* the exception a call f(shuffle=..., **kwargs) raises for a repeated keyword
RepeatedKeyword(kwargs) ==
    IF "shuffle" \in DOMAIN kwargs THEN "TypeError" ELSE None

\* copy.copy(self.kwargs) with 'sampler' and 'batch_sampler' popped
EvalKwargs(kwargs) == DictPop(kwargs, {"sampler", "batch_sampler"})

\* TrainShuffle looking at 'sampler' only
TrainShuffleSamplerOnly(kwargs) ==
    DictGet(kwargs, "sampler", None) = None

\* the shuffle flag the node-level and link-level train_dataloader compute
TrainShuffle(kwargs) ==
    /\ DictGet(kwargs, "sampler", None) = None
    /\ DictGet(kwargs, "batch_sampler", None) = None

----------------------------------------------------------------------------
(* LightningDataset *)

\* LightningDataset.__init__
DatasetInit(a, no_pl) ==
    LET base == BaseInit(a.val_dataset # None, a.test_dataset # None,
                         ("batch_size" :> a.batch_size)
                            @@ ("num_workers" :> a.num_workers) @@ a.kwargs,
                         no_pl)
    IN IF base.raised # None THEN base
       ELSE [base EXCEPT !.fields = @ @@ [train_dataset |-> a.train_dataset,
                                          val_dataset |-> a.val_dataset,
                                          test_dataset |-> a.test_dataset]]

\* LightningDataset.dataloader(dataset, **kwargs)
DatasetDataloader(dataset, kwargs) ==
    [loader |-> "DataLoader", source |-> dataset, kwargs |-> kwargs]

\* the shuffle flag LightningDataset.train_dataloader computes
DatasetTrainShuffle(m) ==
    /\ m.train_dataset # "iterable_style"
    /\ DictGet(m.kwargs, "sampler", None) = None
    /\ DictGet(m.kwargs, "batch_sampler", None) = None

----------------------------------------------------------------------------
(* LightningNodeData and LightningLinkData: the code the two classes share *)

\* f'{split}_mask' in data
HasAttr(data, name) ==
    name \in DOMAIN data.attrs /\ data.attrs[name] > 0

\* infer_input_nodes(data, split): the value returned, or the exception
InferInputNodes(data, split) ==
    LET attr_name ==
            IF HasAttr(data, split \o "_mask") THEN split \o "_mask"
            ELSE IF HasAttr(data, split \o "_idx") THEN split \o "_idx"
            ELSE IF HasAttr(data, split \o "_index") THEN split \o "_index"
            ELSE None
    IN IF attr_name = None THEN [raised |-> None, value |-> None]
       ELSE IF data.kind = "Data"
            THEN [raised |-> None, value |-> attr_name]
       ELSE IF data.kind = "HeteroData"
            THEN IF data.attrs[attr_name] # 1
                 THEN [raised |-> "ValueError", value |-> None]
                 ELSE [raised |-> None, value |-> attr_name]
       ELSE [raised |-> None, value |-> None]

\* inspect.signature(cls).parameters of a sampler class
SignatureParams(sampler_cls) ==
    IF sampler_cls = "NeighborSampler"
    THEN {"data", "num_neighbors", "replace", "directed", "disjoint",
          "temporal_strategy", "input_type", "time_attr", "is_sorted",
          "share_memory"}
    ELSE {"data", "num_samples"}

\* loader = 'custom' when a sampler object is given
EffectiveLoader(loader, sampler) ==
    IF sampler # None THEN "custom" ELSE loader

\* batch_size after the re-setting of mode 'full'
ResetBatchSize(loader, batch_size) ==
    IF loader = "full" /\ batch_size # 1 THEN 1 ELSE batch_size

\* num_workers after the re-setting of mode 'full'
ResetNumWorkers(loader, num_workers) ==
    IF loader = "full" /\ num_workers # 0 THEN 0 ELSE num_workers

\* the warnings of the two re-settings
ResetWarnings(loader, batch_size, num_workers) ==
    (IF loader = "full" /\ batch_size # 1 THEN {"batch_size"} ELSE {})
    \cup (IF loader = "full" /\ num_workers # 0 THEN {"num_workers"} ELSE {})

\* PinMemoryWarning reading the default of the base class
PinMemoryWarningDefaulted(loader, kwargs) ==
    IF loader = "full" /\ DictGet(kwargs, "pin_memory", TRUE)
    THEN {"pin_memory"} ELSE {}

\* the warning of the pin_memory re-setting; kwargs are the caller's
PinMemoryWarning(loader, kwargs) ==
    IF loader = "full" /\ DictGet(kwargs, "pin_memory", FALSE)
    THEN {"pin_memory"} ELSE {}

\* self.kwargs after the pin_memory re-setting
ResetPinMemory(loader, stored) ==
    IF loader = "full" THEN DictSet(stored, "pin_memory", FALSE) ELSE stored

\* self.neighbor_sampler, or None when the attribute is never set
NeighborSamplerOf(loader, neighbor_modes, sampler, num_workers, kwargs) ==
    IF loader \in neighbor_modes
    THEN [class |-> "NeighborSampler",
          share_memory |-> num_workers > 0,
          num_neighbors |-> DictGet(kwargs, "num_neighbors", "empty")]
    ELSE IF sampler # None
         THEN [class |-> sampler, share_memory |-> FALSE,
               num_neighbors |-> "empty"]
    ELSE [class |-> None, share_memory |-> FALSE, num_neighbors |-> "empty"]

\* self.kwargs after popping the parameters of the sampler's class
PopSamplerParams(neighbor_sampler, stored) ==
    IF neighbor_sampler.class # None
    THEN DictPop(stored, SignatureParams(neighbor_sampler.class))
    ELSE stored

\* the part of __init__ from the re-settings to the popping of the
\* sampler's parameters; loader is the effective loader
SampledInit(loader, neighbor_modes, sampler, has_val, has_test, a, no_pl) ==
    LET batch_size == ResetBatchSize(loader, a.batch_size)
        num_workers == ResetNumWorkers(loader, a.num_workers)
        early == ResetWarnings(loader, a.batch_size, a.num_workers)
        base == BaseInit(has_val, has_test,
                         ("batch_size" :> batch_size)
                            @@ ("num_workers" :> num_workers) @@ a.kwargs,
                         no_pl)
        ns == NeighborSamplerOf(loader, neighbor_modes, sampler, num_workers,
                                a.kwargs)
    IN IF base.raised # None THEN [base EXCEPT !.warned = early]
       ELSE [raised |-> None,
             warned |-> early \cup base.warned
                          \cup PinMemoryWarning(loader, a.kwargs),
             fields |-> [base.fields EXCEPT
                            !.kwargs = PopSamplerParams(ns,
                                          ResetPinMemory(loader, @))]
                        @@ [data |-> a.data, loader |-> loader,
                            neighbor_sampler |-> ns]]

Max(x, y) == IF x >= y THEN x ELSE y

\* the device count prepare_data reads from the trainer
NumDevices(trainer) ==
    IF ~trainer.legacy THEN trainer.num_devices
    ELSE Max(trainer.num_processes, trainer.num_gpus)

\* SampledPrepareData with the strategy check made first
SampledPrepareDataStrategyFirst(m, trainer) ==
    IF BasePrepareData(trainer) # None THEN BasePrepareData(trainer)
    ELSE IF m.loader = "full" /\ NumDevices(trainer) > 1 THEN "ValueError"
    ELSE None

\* prepare_data of LightningNodeData / LightningLinkData
SampledPrepareData(m, trainer) ==
    IF m.loader = "full" /\ NumDevices(trainer) > 1
    THEN "ValueError"
    ELSE BasePrepareData(trainer)

\* dataloader(...) of LightningNodeData / LightningLinkData
SampledDataloader(m, loader_cls, input, kwargs) ==
    IF m.loader = "full"
    THEN [loader |-> "torch.utils.data.DataLoader", source |-> "[data]",
          graph_sampler |-> None,
          kwargs |-> DictPop(DictSet(kwargs, "shuffle", TRUE),
                             {"sampler", "batch_sampler"})]
    ELSE [loader |-> loader_cls, source |-> input,
          graph_sampler |-> m.neighbor_sampler.class,
          kwargs |-> kwargs]

----------------------------------------------------------------------------
(* LightningNodeData *)

\* LightningNodeData.__init__
NodeDataInit(a, no_pl) ==
    LET loader == EffectiveLoader(a.loader, a.node_sampler)
        Infer(given, split) ==
            IF given = None THEN InferInputNodes(a.data, split)
            ELSE [raised |-> None, value |-> given]
        train == Infer(a.input_train_nodes, "train")
        val1 == Infer(a.input_val_nodes, "val")
        val == IF val1.raised = None /\ val1.value = None
               THEN InferInputNodes(a.data, "valid") ELSE val1
        test == Infer(a.input_test_nodes, "test")
        pred == Infer(a.input_pred_nodes, "pred")
        failed == {r \in {train, val, test, pred} : r.raised # None}
        init == SampledInit(loader, {"neighbor"}, a.node_sampler,
                            val.value # None, test.value # None, a, no_pl)
    IN IF loader \notin {"full", "neighbor", "custom"}
       THEN [raised |-> "AssertionError", warned |-> {}, fields |-> EmptyDict]
       ELSE IF failed # {}
       THEN [raised |-> "ValueError", warned |-> {}, fields |-> EmptyDict]
       ELSE IF init.raised # None THEN init
       ELSE [init EXCEPT !.fields = @ @@
                [input_train_nodes |-> train.value,
                 input_val_nodes |-> val.value,
                 input_test_nodes |-> test.value,
                 input_pred_nodes |-> pred.value]]

----------------------------------------------------------------------------
(* LightningLinkData *)

\* LightningLinkData.__init__
LinkDataInit(a, no_pl) ==
    LET loader == EffectiveLoader(a.loader, a.link_sampler)
        init == SampledInit(loader, {"neighbor", "link_neighbor"},
                            a.link_sampler, a.input_val_edges # None,
                            a.input_test_edges # None, a, no_pl)
    IN IF loader \notin {"full", "neighbor", "link_neighbor", "custom"}
       THEN [raised |-> "AssertionError", warned |-> {}, fields |-> EmptyDict]
       ELSE IF a.input_train_edges = None
       THEN [raised |-> "NotImplementedError", warned |-> {},
             fields |-> EmptyDict]
       ELSE IF init.raised # None THEN init
       ELSE [init EXCEPT !.fields = @ @@
                [input_train_edges |-> a.input_train_edges,
                 input_val_edges |-> a.input_val_edges,
                 input_test_edges |-> a.input_test_edges]]

----------------------------------------------------------------------------
(* The calls of the accessors *)

\* a call f(..., shuffle=shuffle, **kwargs): the keyword arguments received,
\* or the exception of a repeated keyword
WithShuffle(shuffle, kwargs) ==
    [raised |-> RepeatedKeyword(kwargs),
     kwargs |-> DictSet(kwargs, "shuffle", shuffle)]

\* the input of a split the module stores
SplitInput(c, m, split) ==
    IF c = "LightningDataset"
    THEN (IF split = "train" THEN m.train_dataset
          ELSE IF split = "val" THEN m.val_dataset ELSE m.test_dataset)
    ELSE IF c = "LightningNodeData"
    THEN (IF split = "train" THEN m.input_train_nodes
          ELSE IF split = "val" THEN m.input_val_nodes
          ELSE IF split = "test" THEN m.input_test_nodes
          ELSE m.input_pred_nodes)
    ELSE (IF split = "train" THEN m.input_train_edges
          ELSE IF split = "val" THEN m.input_val_edges
          ELSE m.input_test_edges)

\* self.dataloader(input, **kwargs) of class c
Dataloader(c, m, input, kwargs) ==
    IF c = "LightningDataset" THEN DatasetDataloader(input, kwargs)
    ELSE IF c = "LightningNodeData"
    THEN SampledDataloader(m, "NodeLoader", input, kwargs)
    ELSE SampledDataloader(m, "LinkLoader", input, kwargs)

NoCall == EmptyDict

\* train_dataloader(self) of class c
TrainCall(c, m) ==
    LET shuffle == IF c = "LightningDataset" THEN DatasetTrainShuffle(m)
                   ELSE TrainShuffle(m.kwargs)
        passed == WithShuffle(shuffle, m.kwargs)
    IN IF passed.raised # None
       THEN [raised |-> passed.raised, call |-> NoCall]
       ELSE [raised |-> None,
             call |-> Dataloader(c, m, SplitInput(c, m, "train"),
                                 passed.kwargs)]

\* val_dataloader / test_dataloader / predict_dataloader of class c
EvalCall(c, m, split) ==
    LET passed == WithShuffle(FALSE, EvalKwargs(m.kwargs))
    IN IF passed.raised # None
       THEN [raised |-> passed.raised, call |-> NoCall]
       ELSE [raised |-> None,
             call |-> Dataloader(c, m, SplitInput(c, m, split),
                                 passed.kwargs)]

\* prepare_data(self) of class c
PrepareDataOf(c, m, trainer) ==
    IF c = "LightningDataset" THEN BasePrepareData(trainer)
    ELSE SampledPrepareData(m, trainer)

\* the constructor of class c
InitOf(c, a, no_pl) ==
    IF c = "LightningDataset" THEN DatasetInit(a, no_pl)
    ELSE IF c = "LightningNodeData" THEN NodeDataInit(a, no_pl)
    ELSE LinkDataInit(a, no_pl)

----------------------------------------------------------------------------
(* The state machine *)

NoTrainer == EmptyDict

NoArgs == EmptyDict

Init ==
    /\ no_pytorch_lightning \in BOOLEAN
    /\ phase = "new"
    /\ cls = None
    /\ args = NoArgs
    /\ self = EmptyDict
    /\ warned = {}
    /\ raised = None
    /\ last = [op |-> "none", trainer |-> NoTrainer, raised |-> None,
               call |-> NoCall]

Construct(c, a) ==
    /\ phase = "new"
    /\ LET r == InitOf(c, a, no_pytorch_lightning)
       IN /\ phase' = IF r.raised = None THEN "ready" ELSE "failed"
          /\ self' = r.fields
          /\ warned' = r.warned
          /\ raised' = r.raised
    /\ cls' = c
    /\ args' = a
    /\ UNCHANGED <<no_pytorch_lightning, last>>

ConstructDataset == \E a \in DatasetArgs : Construct("LightningDataset", a)

ConstructNodeData == \E a \in NodeDataArgs : Construct("LightningNodeData", a)

ConstructLinkData == \E a \in LinkDataArgs : Construct("LightningLinkData", a)

PrepareData ==
    /\ phase = "ready"
    /\ \E trainer \in Trainers :
          last' = [op |-> "prepare_data", trainer |-> trainer,
                   raised |-> PrepareDataOf(cls, self, trainer),
                   call |-> NoCall]
    /\ UNCHANGED <<no_pytorch_lightning, phase, cls, args, self, warned, raised>>

Accessor(op, r) ==
    /\ last' = [op |-> op, trainer |-> NoTrainer, raised |-> r.raised,
                call |-> r.call]
    /\ UNCHANGED <<no_pytorch_lightning, phase, cls, args, self, warned, raised>>

TrainDataloader ==
    /\ phase = "ready"
    /\ self.train_dataloader # None
    /\ Accessor("train_dataloader", TrainCall(cls, self))

ValDataloader ==
    /\ phase = "ready"
    /\ self.val_dataloader # None
    /\ Accessor("val_dataloader", EvalCall(cls, self, "val"))

TestDataloader ==
    /\ phase = "ready"
    /\ self.test_dataloader # None
    /\ Accessor("test_dataloader", EvalCall(cls, self, "test"))

PredictDataloader ==
    /\ phase = "ready"
    /\ cls = "LightningNodeData"
    /\ Accessor("predict_dataloader", EvalCall(cls, self, "pred"))

Next ==
    \/ ConstructDataset
    \/ ConstructNodeData
    \/ ConstructLinkData
    \/ PrepareData
    \/ TrainDataloader
    \/ ValDataloader
    \/ TestDataloader
    \/ PredictDataloader

Spec == Init /\ [][Next]_vars

----------------------------------------------------------------------------
(* Vocabulary of the properties *)

Ready == phase = "ready"

Sampled == cls \in {"LightningNodeData", "LightningLinkData"}

Prepared == Ready /\ last.op = "prepare_data"

\* the trainer's strategy is a SingleDeviceStrategy or a DDPSpawnStrategy
Supported(trainer) ==
    LET s == IF trainer.legacy THEN trainer.training_type_plugin
             ELSE trainer.strategy
    IN \E b \in Bases(s) : b \in {"SingleDeviceStrategy", "DDPSpawnStrategy"}

\* trainer.num_devices, or max(num_processes, num_gpus) when unavailable
DeviceCount(trainer) ==
    IF trainer.legacy
    THEN (IF trainer.num_processes > trainer.num_gpus
          THEN trainer.num_processes ELSE trainer.num_gpus)
    ELSE trainer.num_devices

\* the custom sampler object given to the constructor, or None
SamplerArg ==
    IF cls = "LightningNodeData" THEN args.node_sampler
    ELSE IF cls = "LightningLinkData" THEN args.link_sampler
    ELSE None

\* the module was constructed with loader='full'
ConstructedFull == Sampled /\ args.loader = "full"

\* ... and without a custom sampler, so that its mode is 'full'
FullMode == ConstructedFull /\ SamplerArg = None

----------------------------------------------------------------------------
(* C1 *)

\* C1 as stated: prepare_data succeeds only under a SingleDeviceStrategy or
\* a DDPSpawnStrategy, under every other strategy it raises
\* NotImplementedError, and under the two supported strategies the base
\* check raises nothing.
C1_AsStated ==
    Prepared =>
        /\ last.raised = None => Supported(last.trainer)
        /\ ~Supported(last.trainer) => last.raised = "NotImplementedError"
        /\ Supported(last.trainer) => last.raised # "NotImplementedError"

\* the outcome of prepare_data in every state that follows a call
C1_Outcome ==
    Prepared =>
        LET multi == FullMode /\ DeviceCount(last.trainer) > 1
        IN /\ last.raised = None => Supported(last.trainer)
           /\ ~Supported(last.trainer) /\ ~multi
                 => last.raised = "NotImplementedError"
           /\ ~Supported(last.trainer) /\ multi => last.raised = "ValueError"
           /\ Supported(last.trainer) => last.raised # "NotImplementedError"

\* C1, amended: prepare_data succeeds only under a SingleDeviceStrategy or a
\* DDPSpawnStrategy; under every other strategy it raises
\* NotImplementedError, except that a node-level or link-level module in
\* mode 'full' raises ValueError instead when the trainer has more than one
\* device; under the two supported strategies the base check raises
\* nothing; and a call of prepare_data changes no field of the module.
C1_PrepareData ==
    /\ []C1_Outcome
    /\ [][last'.op = "prepare_data" /\ last' # last
            => UNCHANGED <<self, cls, phase, warned, raised>>]_vars

\* prepare_data of a link-level module was refused for a DDPStrategy
C1_Witness ==
    /\ Prepared
    /\ cls = "LightningLinkData"
    /\ ~last.trainer.legacy
    /\ last.trainer.strategy = "DDPStrategy"
    /\ last.raised = "NotImplementedError"

----------------------------------------------------------------------------
(* C2 *)

\* C2 as stated: a node-level or link-level module constructed with
\* loader='full' raises ValueError from prepare_data whenever the trainer
\* has more than one device, whatever the strategy; with another loader the
\* device count causes no error.
C2_AsStated ==
    Prepared /\ Sampled =>
        /\ args.loader = "full" /\ DeviceCount(last.trainer) > 1
              => last.raised = "ValueError"
        /\ args.loader # "full" => last.raised # "ValueError"

\* C2, amended: a node-level or link-level module constructed with
\* loader='full' and without a custom sampler raises ValueError from
\* prepare_data whenever the trainer has more than one device, whatever the
\* strategy (the device check comes first); in every other case the device
\* count causes no error and the outcome is that of the strategy check.
C2_FullDevices ==
    Prepared /\ Sampled =>
        /\ FullMode /\ DeviceCount(last.trainer) > 1
              => last.raised = "ValueError"
        /\ ~(FullMode /\ DeviceCount(last.trainer) > 1)
              => /\ last.raised # "ValueError"
                 /\ last.raised = None <=> Supported(last.trainer)

\* a legacy trainer with one process and two gpus and an unsupported
\* strategy was refused with ValueError by a module in mode 'full'
C2_Witness ==
    /\ Prepared
    /\ cls = "LightningNodeData"
    /\ FullMode
    /\ last.trainer.legacy
    /\ last.trainer.num_processes = 1
    /\ last.trainer.num_gpus = 2
    /\ last.trainer.training_type_plugin = "DDPStrategy"
    /\ last.raised = "ValueError"

----------------------------------------------------------------------------
(* C3 *)

\* the data object holds an attribute from which the nodes of one of the
\* splits named are inferred
Inferable(data, splits) ==
    /\ data.kind \in {"Data", "HeteroData"}
    /\ \E sp \in splits, suffix \in {"_mask", "_idx", "_index"} :
          /\ (sp \o suffix) \in DOMAIN data.attrs
          /\ data.attrs[sp \o suffix] > 0

\* the module has a validation input
HasValInput ==
    IF cls = "LightningDataset" THEN args.val_dataset # None
    ELSE IF cls = "LightningLinkData" THEN args.input_val_edges # None
    ELSE /\ self.input_val_nodes # None
         /\ args.input_val_nodes # None
               \/ Inferable(args.data, {"val", "valid"})

\* the module has a test input
HasTestInput ==
    IF cls = "LightningDataset" THEN args.test_dataset # None
    ELSE IF cls = "LightningLinkData" THEN args.input_test_edges # None
    ELSE /\ self.input_test_nodes # None
         /\ args.input_test_nodes # None \/ Inferable(args.data, {"test"})

\* for a node-level module the stored nodes and the inference agree
InferenceAgrees ==
    cls = "LightningNodeData" =>
        /\ self.input_val_nodes # None
              <=> (args.input_val_nodes # None
                      \/ Inferable(args.data, {"val", "valid"}))
        /\ self.input_test_nodes # None
              <=> (args.input_test_nodes # None
                      \/ Inferable(args.data, {"test"}))

C3_Disabled ==
    Ready =>
        /\ InferenceAgrees
        /\ self.val_dataloader = None <=> ~HasValInput
        /\ self.test_dataloader = None <=> ~HasTestInput
        /\ self.train_dataloader # None

\* C3: after construction val_dataloader is None exactly when the module
\* has no validation input and test_dataloader is None exactly when it has
\* no test input (for a node-level module: after the inference from the
\* data object); train_dataloader is never disabled; and no later call
\* changes which accessors are disabled.
C3_Accessors ==
    /\ []C3_Disabled
    /\ [][phase = "ready" =>
            /\ self'.val_dataloader = self.val_dataloader
            /\ self'.test_dataloader = self.test_dataloader
            /\ self'.train_dataloader = self.train_dataloader]_vars

\* a node-level module whose validation nodes were inferred from
\* 'valid_mask' and that has no test nodes has answered val_dataloader
C3_Witness ==
    /\ Ready
    /\ cls = "LightningNodeData"
    /\ args.input_val_nodes = None
    /\ self.input_val_nodes = "valid_mask"
    /\ self.val_dataloader # None
    /\ self.test_dataloader = None
    /\ last.op = "val_dataloader"

----------------------------------------------------------------------------
(* C4 *)

\* the accessors the host framework may call on module m of class c
AccessorOps(c, m) ==
    {"train_dataloader"}
    \cup (IF m.val_dataloader # None THEN {"val_dataloader"} ELSE {})
    \cup (IF m.test_dataloader # None THEN {"test_dataloader"} ELSE {})
    \cup (IF c = "LightningNodeData" THEN {"predict_dataloader"} ELSE {})

\* what accessor op of module m hands to the loader
CallOf(c, m, op) ==
    IF op = "train_dataloader" THEN TrainCall(c, m)
    ELSE IF op = "val_dataloader" THEN EvalCall(c, m, "val")
    ELSE IF op = "test_dataloader" THEN EvalCall(c, m, "test")
    ELSE EvalCall(c, m, "pred")

\* the module built from the same arguments with 'shuffle' set to v
ShuffleTwin(v) ==
    InitOf(cls, [args EXCEPT !.kwargs = DictSet(@, "shuffle", v)],
           no_pytorch_lightning)

\* C4: a 'shuffle' option passed to a constructor is ignored: a warning is
\* emitted, the stored kwargs do not hold 'shuffle', and a module built
\* from arguments that differ only in the value of 'shuffle' stores the
\* same kwargs, has the same accessors and hands the same arguments, the
\* shuffle flag included, to the loader of every split.
C4_ShuffleIgnored ==
    Ready =>
        /\ "shuffle" \notin DOMAIN self.kwargs
        /\ "shuffle" \in DOMAIN args.kwargs =>
              /\ "shuffle" \in warned
              /\ \A v \in BOOLEAN :
                    LET twin == ShuffleTwin(v)
                    IN /\ twin.raised = None
                       /\ twin.warned = warned
                       /\ twin.fields.kwargs = self.kwargs
                       /\ AccessorOps(cls, twin.fields) = AccessorOps(cls, self)
                       /\ \A op \in AccessorOps(cls, self) :
                             /\ CallOf(cls, twin.fields, op).raised = None
                             /\ CallOf(cls, twin.fields, op)
                                   = CallOf(cls, self, op)
                       /\ last.op \in AccessorOps(cls, self) =>
                             CallOf(cls, twin.fields, last.op)
                                = [raised |-> last.raised, call |-> last.call]

\* a module built with shuffle=True has handed shuffle=False to the loader
\* of the validation split
C4_Witness ==
    /\ Ready
    /\ "shuffle" \in DOMAIN args.kwargs
    /\ args.kwargs["shuffle"] = TRUE
    /\ "shuffle" \in warned
    /\ last.op = "val_dataloader"
    /\ last.raised = None
    /\ last.call.kwargs["shuffle"] = FALSE

----------------------------------------------------------------------------
(* C5 *)

\* the caller passed key k with value v
Passed(k, v) == k \in DOMAIN args.kwargs /\ args.kwargs[k] = v

\* C5: a node-level or link-level module with loader='full' and no custom
\* sampler stores batch_size = 1, num_workers = 0 and pin_memory = False
\* whatever the caller supplied; the re-setting warning is emitted for
\* batch_size exactly when the supplied value is not 1, for num_workers
\* exactly when the supplied value is not 0, and for pin_memory exactly
\* when the caller passed a true pin_memory.
C5_FullResets ==
    Ready /\ FullMode =>
        /\ self.loader = "full"
        /\ self.kwargs["batch_size"] = 1
        /\ self.kwargs["num_workers"] = 0
        /\ self.kwargs["pin_memory"] = FALSE
        /\ "batch_size" \in warned <=> args.batch_size # 1
        /\ "num_workers" \in warned <=> args.num_workers # 0
        /\ "pin_memory" \in warned <=> Passed("pin_memory", TRUE)

\* a link-level module in mode 'full' given batch_size 2 and one worker and
\* no pin_memory warned of the first two only
C5_Witness ==
    /\ Ready
    /\ cls = "LightningLinkData"
    /\ FullMode
    /\ args.batch_size = 2
    /\ args.num_workers = 1
    /\ "pin_memory" \notin DOMAIN args.kwargs
    /\ warned = {"batch_size", "num_workers"}
    /\ self.kwargs["pin_memory"] = FALSE

----------------------------------------------------------------------------
(* C6 *)

SamplerKeys == {"sampler", "batch_sampler"}

\* the kwargs hold a non-None 'sampler' or a non-None 'batch_sampler'
HoldsSampler(kwargs) ==
    \E k \in SamplerKeys : k \in DOMAIN kwargs /\ kwargs[k] # None

\* train_dataloader has built the training loader
Trained == Ready /\ last.op = "train_dataloader" /\ last.raised = None

\* the shuffling train_dataloader is said to request
ExpectedShuffle ==
    /\ ~HoldsSampler(self.kwargs)
    /\ cls = "LightningDataset" => self.train_dataset # "iterable_style"

\* the loader received the stored 'sampler' and 'batch_sampler' unchanged
\* (a key that is not held counts as None, the loader's default)
PassedThrough ==
    \A k \in SamplerKeys :
        DictGet(last.call.kwargs, k, None) = DictGet(self.kwargs, k, None)

\* C6 as stated: the training loader is asked to shuffle exactly when the
\* stored kwargs hold neither a non-None 'sampler' nor a non-None
\* 'batch_sampler' (and the training dataset of a LightningDataset is not
\* iterable-style), and it receives the stored 'sampler' and
\* 'batch_sampler' unchanged.
C6_AsStated ==
    Trained =>
        /\ last.call.kwargs["shuffle"] <=> ExpectedShuffle
        /\ PassedThrough

\* C6, amended: as stated for every module that is not in mode 'full'; the
\* training loader of a node-level or link-level module in mode 'full' is
\* always asked to shuffle and receives neither 'sampler' nor
\* 'batch_sampler'.  train_dataloader raises nothing.
C6_TrainShuffle ==
    /\ Ready /\ last.op = "train_dataloader" => last.raised = None
    /\ Trained /\ ~FullMode =>
          /\ last.call.kwargs["shuffle"] <=> ExpectedShuffle
          /\ PassedThrough
    /\ Trained /\ FullMode =>
          /\ last.call.kwargs["shuffle"] = TRUE
          /\ SamplerKeys \cap DOMAIN last.call.kwargs = {}

\* a node-level module in mode 'neighbor' that stores a batch_sampler and
\* no sampler has built its training loader without shuffling
C6_Witness ==
    /\ Trained
    /\ cls = "LightningNodeData"
    /\ self.loader = "neighbor"
    /\ "sampler" \notin DOMAIN self.kwargs
    /\ "batch_sampler" \in DOMAIN self.kwargs
    /\ last.call.kwargs["shuffle"] = FALSE
    /\ last.call.kwargs["batch_sampler"] = "batch_sampler_obj"

----------------------------------------------------------------------------
(* C7 *)

ConfigKeys == {"pin_memory", "persistent_workers"}

\* the parameters of the sampler's class, which the module removes
SamplerParams ==
    IF Sampled /\ self.neighbor_sampler.class # None
    THEN SignatureParams(self.neighbor_sampler.class)
    ELSE {}

\* C7 as stated, with "every value the caller supplied" read as the values
\* of 'pin_memory' and 'persistent_workers' only: these are kept,
\* 'pin_memory' is True when not passed, 'persistent_workers' is
\* (num_workers > 0) of the stored num_workers when not passed (False in
\* mode 'full'), and a true persistent_workers implies num_workers > 0.
C7_AsStated ==
    Ready =>
        /\ \A k \in ConfigKeys \cap DOMAIN args.kwargs :
              self.kwargs[k] = args.kwargs[k]
        /\ "pin_memory" \notin DOMAIN args.kwargs
              => self.kwargs["pin_memory"] = TRUE
        /\ "persistent_workers" \notin DOMAIN args.kwargs
              => /\ self.kwargs["persistent_workers"]
                       = (self.kwargs["num_workers"] > 0)
                 /\ FullMode => self.kwargs["persistent_workers"] = FALSE
        /\ self.kwargs["persistent_workers"]
              => self.kwargs["num_workers"] > 0

\* C7, amended: the merged configuration keeps every value the caller
\* passed in **kwargs except 'shuffle', the parameters of the sampler's
\* class and, in mode 'full', 'pin_memory'; 'pin_memory' is False in mode
\* 'full' and otherwise True when the caller did not pass it;
\* 'persistent_workers', when the caller did not pass it, is
\* (num_workers > 0) of the num_workers finally stored (False in mode
\* 'full'), so that it implies num_workers > 0 unless the caller passed it.
C7_MergedConfig ==
    Ready =>
        /\ \A k \in DOMAIN args.kwargs \ ({"shuffle"} \cup SamplerParams) :
              /\ k \in DOMAIN self.kwargs
              /\ ~(FullMode /\ k = "pin_memory")
                    => self.kwargs[k] = args.kwargs[k]
        /\ FullMode => self.kwargs["pin_memory"] = FALSE
        /\ ~FullMode /\ "pin_memory" \notin DOMAIN args.kwargs
              => self.kwargs["pin_memory"] = TRUE
        /\ "persistent_workers" \notin DOMAIN args.kwargs
              => /\ self.kwargs["persistent_workers"]
                       = (self.kwargs["num_workers"] > 0)
                 /\ FullMode => self.kwargs["persistent_workers"] = FALSE
                 /\ self.kwargs["persistent_workers"]
                       => self.kwargs["num_workers"] > 0

\* a node-level module in mode 'full' given one worker and no
\* persistent_workers stores persistent_workers = False
C7_Witness ==
    /\ Ready
    /\ cls = "LightningNodeData"
    /\ FullMode
    /\ args.num_workers = 1
    /\ "persistent_workers" \notin DOMAIN args.kwargs
    /\ self.kwargs["num_workers"] = 0
    /\ self.kwargs["persistent_workers"] = FALSE

====
